---- MODULE Spec2Model ----
(***************************************************************************)
(* State-machine model of V1/video_tool_core.py: the three batch           *)
(* operations extract_frames (getframe), convert_to_mp4 (getmp4) and       *)
(* merge_videos_recursively (mergevideo), their per-unit workers and the   *)
(* cv2 VideoCapture / VideoWriter handles they own.                        *)
(*                                                                         *)
(* The filesystem and the video I/O library are the environment: what a    *)
(* directory holds, whether a file opens, the frame rate and geometry a    *)
(* stream reports and whether the next read delivers a frame are chosen    *)
(* with \E at the step where the code asks.  Frame rates are kept in       *)
(* halves of a frame per second (an fps of 2.5 is the integer 5), so that  *)
(* Python's round-half-to-even is modelled exactly.  A path is a suffix    *)
(* (a sequence of characters) plus, for the merge, a position in the       *)
(* lexicographic order of the names.                                       *)
(***************************************************************************)
EXTENDS Integers, Sequences, FiniteSets, TLC

\* ------------------------------------------------------------------ bounds
\* paths Path.rglob yields for one directory run of getframe / getmp4
MaxEntries == 3
\* frames one stream delivers to getframe / getmp4 before end-of-stream
MaxFrames == 27
\* frames one stream delivers to a merge
MaxMergeFrames == 2
\* directories os.walk visits in one mergevideo run
MaxDirs == 2
\* entries with a supported suffix in the whole tree of one mergevideo run
MaxVideos == 3
\* invocations of convert_to_mp4 on the same single file
MaxRuns == 2

\* ------------------------------------------------------- program constants
\* _safe_fps(cap, default=25.0), in frames per second
DefaultFps == 25

\* ---------------------------------------------------------------- strings
\* str.lower() on one character of the alphabet the suffixes use
LowerChar(c) ==
  CASE c = "M" -> "m"
    [] c = "P" -> "p"
    [] c = "K" -> "k"
    [] c = "V" -> "v"
    [] OTHER -> c

\* str.lower()
Lower(s) == [i \in DOMAIN s |-> LowerChar(s[i])]

\* str.lstrip("."): drop every leading dot
RECURSIVE LstripDot(_)
LstripDot(s) == IF s # <<>> /\ Head(s) = "." THEN LstripDot(Tail(s)) ELSE s

VIDEO_EXTENSIONS ==
  { <<"m","p","4">>, <<"a","v","i">>, <<"m","k","v">>, <<"m","o","v">>,
    <<"f","l","v">>, <<"w","m","v">>, <<"w","e","b","m">> }

\* is_video_file(p): Path(p).suffix.lower().lstrip(".") in VIDEO_EXTENSIONS
is_video_file(suffix) == LstripDot(Lower(suffix)) \in VIDEO_EXTENSIONS

DotMp4 == <<".","m","p","4">>

\* the mutant of the already-MP4 test that compares the suffix as written
IsMp4Suffix_exact(suffix) == suffix = DotMp4

\* f.suffix.lower() == ".mp4"
IsMp4Suffix(suffix) == Lower(suffix) = DotMp4

\* the suffixes Path.suffix can return for the paths of the model
Suffixes ==
  { DotMp4, <<".","M","p","4">>, <<".","a","v","i">>, <<".","M","K","V">>,
    <<".","t","x","t">>, <<>> }

\* what Path.rglob("*") yields: regular files and directories, any suffix
Entries == [kind : {"file", "dir"}, suffix : Suffixes]

\* ----------------------------------------------------------------- numbers
Max(a, b) == IF a >= b THEN a ELSE b

\* ceil(a / b) for b > 0
CeilDiv(a, b) == (a + b - 1) \div b

\* the frame rates cap.get(CAP_PROP_FPS) reports, in halves: -1.0, 0 (also
\* None), 0.5, 1.0, 1.5, 2.5, 3.5
FpsReported == {-2, 0, 1, 2, 3, 5, 7}

\* the widths and heights cap.get(CAP_PROP_FRAME_WIDTH / _HEIGHT) reports: 0
\* (also None) and two sizes.  The code only tests a size against 0 and
\* against the reference size, so two distinct sizes show every case.
Dimensions == {0, 1, 2}

\* the widths and heights frame.shape has
FrameDimensions == Dimensions \ {0}

\* _safe_fps: fps if fps and fps > 0 else default (halves)
SafeFps(raw) == IF raw # 0 /\ raw > 0 THEN raw ELSE 2 * DefaultFps

\* int(round(fps)) of Python 3: round half to even; fps2 is in halves
PyRound(fps2) ==
  LET q == fps2 \div 2
      r == fps2 % 2
  IN  IF r = 0 THEN q ELSE IF q % 2 = 1 THEN q + 1 ELSE q

\* frame_interval = max(int(round(fps)), 1)
FrameInterval(fps2) == Max(PyRound(fps2), 1)

\* the mutant of the sampling test that saves only past the counter
DueForSave_strict(idx, next_save) == idx > next_save

\* if idx >= next_save
DueForSave(idx, next_save) == idx >= next_save


\* the mutant of the AND-reduction in which the last unit's result wins
AndReduce_last(ok_all, okUnit) == okUnit

\* if not worker(f, log): ok_all = False
AndReduce(ok_all, okUnit) == IF ~okUnit THEN FALSE ELSE ok_all

\* the mutant of the directory loops that logs the failure line for every unit
FailureLine_always(okUnit, line) == <<line>>

\* if not worker(f, log): log("... failed: f")
FailureLine(okUnit, line) == IF ~okUnit THEN <<line>> ELSE <<>>

\* the mutant of release() that leaves the handle open
Release_forgotten(handle) == handle

\* cap.release() / writer.release()
Release(handle) == "released"

\* the mutant of the empty-output test that never fires
NoFramesWritten_never(frames) == FALSE

\* if frames == 0
NoFramesWritten(frames) == frames = 0

\* ------------------------------------------------------------------- state
VARIABLES
  cmd,         \* the operation invoked: "getframe", "getmp4" or "mergevideo"
  inputKind,   \* what input_path is: "dir", "file", or "none" (neither)
  inputSuffix, \* Path(input_path).suffix
  pc,          \* position of the single thread of control
  remaining,   \* paths root.rglob("*") has still to yield
  walk,        \* directories os.walk has still to yield
  dirsSeen,    \* directories os.walk has discovered so far
  vidsSeen,    \* entries with a supported suffix listed so far
  cur,         \* the loop variable f of the directory loops / video_path
  ok_all,      \* the aggregate of a directory run
  ok,          \* the value the per-unit worker returned
  returned,    \* the top-level operation has returned
  result,      \* the boolean it returned
  log,         \* the lines passed to the log callback, in order
  cap,         \* the worker's cv2.VideoCapture
  writer,      \* the worker's cv2.VideoWriter
  cap0,        \* _merge_dir's reference cv2.VideoCapture
  loc,         \* the worker's other local variables
  unitNo,      \* units of work started in this invocation
  results,     \* per started unit, in order: "ok", "failed" or "skipped"
  opens,       \* VideoCapture / VideoWriter objects constructed for the unit
  fsOps,       \* files and directories created or overwritten for the unit
  badAccess,   \* a handle was read, written or queried while not open
  leaked,      \* a handle was dropped while open
  lastWritten, \* the frame most recently passed to writer.write
  history      \* what the earlier invocations on this input returned and did

vars ==
  << cmd, inputKind, inputSuffix, pc, remaining, walk, dirsSeen, vidsSeen, cur, ok_all,
     ok, returned, result, log, cap, writer, cap0, loc, unitNo, results,
     opens, fsOps, badAccess, leaked, lastWritten, history >>

NoEntry == [kind |-> "none", suffix |-> <<>>]
NoLocals == [op |-> "none"]
NoFrame == [w |-> 0, h |-> 0, resized |-> FALSE, from |-> <<0, 0>>]

\* one log event: the sentence (by its kind) and the unit of work it is about
\* (0 for the lines about the run as a whole)
Line(l, u) == [line |-> l, unit |-> u]

Init ==
  /\ cmd \in {"getframe", "getmp4", "mergevideo"}
  /\ inputKind \in {"dir", "file", "none"}
  /\ inputSuffix \in (IF inputKind = "file" THEN Suffixes ELSE {<<>>})
  /\ remaining \in (IF inputKind = "dir" /\ cmd # "mergevideo"
                    THEN 0..MaxEntries ELSE {0})
  /\ pc = "start"
  /\ walk = 0
  /\ dirsSeen = 0
  /\ vidsSeen = 0
  /\ cur = NoEntry
  /\ ok_all = TRUE
  /\ ok = TRUE
  /\ returned = FALSE
  /\ result = FALSE
  /\ log = <<>>
  /\ cap = "none"
  /\ writer = "none"
  /\ cap0 = "none"
  /\ loc = NoLocals
  /\ unitNo = 0
  /\ results = <<>>
  /\ opens = 0
  /\ fsOps = 0
  /\ badAccess = FALSE
  /\ leaked = FALSE
  /\ lastWritten = NoFrame
  /\ history = <<>>

\* return b from the top-level operation
Return(b) ==
  /\ returned' = TRUE
  /\ result' = b
  /\ pc' = "done"

\* the worker's frame is popped: its locals and handle objects go away
DropFrame ==
  /\ leaked' = (leaked \/ cap = "open" \/ writer = "open" \/ cap0 = "open")
  /\ cap' = "none"
  /\ writer' = "none"
  /\ cap0' = "none"
  /\ loc' = NoLocals
  /\ lastWritten' = NoFrame

\* a new unit of work starts
StartUnit(e) ==
  /\ cur' = e
  /\ unitNo' = unitNo + 1
  /\ opens' = 0
  /\ fsOps' = 0

\* ---------------------------------------------------------------- getframe
\* extract_frames, up to the loop or the single call
ExtractFrames ==
  /\ pc = "start" /\ cmd = "getframe"
  /\ IF inputKind = "dir"
     THEN /\ log' = log \o <<Line("DetectedDir", 0), Line("StartProcessDir", 0)>>
          /\ ok_all' = TRUE
          /\ pc' = "x_for"
          /\ UNCHANGED <<cur, unitNo, returned, result>>
     ELSE IF inputKind = "file"
     THEN IF ~is_video_file(inputSuffix)
          THEN /\ log' = Append(log, Line("ErrUnsupported", 0))
               /\ Return(FALSE)
               /\ UNCHANGED <<cur, unitNo, ok_all>>
          ELSE /\ log' = Append(log, Line("ProcessingSingle", unitNo + 1))
               /\ cur' = [kind |-> "file", suffix |-> inputSuffix]
               /\ unitNo' = unitNo + 1
               /\ pc' = "xs_enter"
               /\ UNCHANGED <<ok_all, returned, result>>
     ELSE /\ log' = Append(log, Line("ErrNeither", 0))
          /\ Return(FALSE)
          /\ UNCHANGED <<cur, unitNo, ok_all>>
  /\ UNCHANGED <<cmd, inputKind, inputSuffix, remaining, walk, dirsSeen, vidsSeen, ok,
                 cap, writer, cap0, loc, results, opens, fsOps, badAccess,
                 leaked, lastWritten, history>>

\* for f in _iter_all_files(p): the generator yields the next path that is a
\* regular file with a supported suffix; other paths are passed over
ExtractForNext ==
  /\ pc = "x_for" /\ remaining > 0
  /\ \E e \in Entries :
       /\ remaining' = remaining - 1
       /\ IF e.kind = "file" /\ is_video_file(e.suffix)
          THEN /\ StartUnit(e)
               /\ log' = Append(log, Line("ProcessingFile", unitNo + 1))
               /\ pc' = "xs_enter"
          ELSE UNCHANGED <<cur, unitNo, opens, fsOps, log, pc>>
  /\ UNCHANGED <<cmd, inputKind, inputSuffix, walk, dirsSeen, vidsSeen, ok_all, ok,
                 returned, result, cap, writer, cap0, loc, results, badAccess,
                 leaked, lastWritten, history>>

\* the generator is exhausted: log the summary and return ok_all
ExtractForEnd ==
  /\ pc = "x_for" /\ remaining = 0
  /\ log' = Append(log, Line("AllProcessed", 0))
  /\ Return(ok_all)
  /\ UNCHANGED <<cmd, inputKind, inputSuffix, remaining, walk, dirsSeen, vidsSeen, cur,
                 ok_all, ok, cap, writer, cap0, loc, unitNo, results, opens,
                 fsOps, badAccess, leaked, lastWritten, history>>

\* _extract_frames_single up to the loop: video_path exists (the caller has
\* just seen it as a regular file), out_dir is created, the capture is opened
\* and its frame rate read
XS_Open ==
  /\ pc = "xs_enter"
  /\ fsOps' = fsOps + 1
  /\ opens' = opens + 1
  /\ \E opened \in BOOLEAN :
       IF ~opened
       THEN /\ cap' = "failed"
            /\ log' = Append(log, Line("ErrCannotOpen", unitNo))
            /\ ok' = FALSE
            /\ pc' = "xs_ret"
            /\ loc' = [op |-> "extract", opened |-> FALSE]
       ELSE \E raw \in FpsReported :
            /\ cap' = "open"
            /\ loc' = [op |-> "extract", opened |-> TRUE, raw |-> raw,
                       fps |-> SafeFps(raw),
                       frame_interval |-> FrameInterval(SafeFps(raw)),
                       saved |-> 0, idx |-> 0, next_save |-> 0,
                       images |-> {}]
            /\ pc' = "xs_loop"
            /\ UNCHANGED <<log, ok>>
  /\ UNCHANGED <<cmd, inputKind, inputSuffix, remaining, walk, dirsSeen, vidsSeen, cur,
                 ok_all, returned, result, writer, cap0, unitNo, results,
                 badAccess, leaked, lastWritten, history>>

\* one iteration of the while loop: cap.read(), then save the frame if due.
\* images holds <<n, i>> for the image numbered n made from frame index i
XS_Read ==
  /\ pc = "xs_loop"
  /\ badAccess' = (badAccess \/ cap # "open")
  /\ \E got \in BOOLEAN :
       /\ got => loc.idx < MaxFrames
       /\ IF ~got
          THEN /\ pc' = "xs_release"
               /\ UNCHANGED <<loc, fsOps>>
          ELSE /\ pc' = "xs_loop"
               /\ IF DueForSave(loc.idx, loc.next_save)
                  THEN /\ loc' = [loc EXCEPT
                                    !.saved = @ + 1,
                                    !.images = @ \cup {<<loc.saved + 1, loc.idx>>},
                                    !.next_save = @ + loc.frame_interval,
                                    !.idx = @ + 1]
                       /\ fsOps' = fsOps + 1
                  ELSE /\ loc' = [loc EXCEPT !.idx = @ + 1]
                       /\ UNCHANGED fsOps
  /\ UNCHANGED <<cmd, inputKind, inputSuffix, remaining, walk, dirsSeen, vidsSeen, cur,
                 ok_all, ok, returned, result, log, cap, writer, cap0, unitNo,
                 results, opens, leaked, lastWritten, history>>

\* after the loop: cap.release(), the log line, return True
XS_Release ==
  /\ pc = "xs_release"
  /\ cap' = Release(cap)
  /\ log' = Append(log, Line("FramesSaved", unitNo))
  /\ ok' = TRUE
  /\ pc' = "xs_ret"
  /\ UNCHANGED <<cmd, inputKind, inputSuffix, remaining, walk, dirsSeen, vidsSeen, cur,
                 ok_all, returned, result, writer, cap0, loc, unitNo, results,
                 opens, fsOps, badAccess, leaked, lastWritten, history>>

\* back in extract_frames with the worker's result
ExtractAfter ==
  /\ pc = "xs_ret"
  /\ DropFrame
  /\ results' = Append(results, IF ok THEN "ok" ELSE "failed")
  /\ IF inputKind = "dir"
     THEN /\ log' = log \o FailureLine(ok, Line("ProcessingFailed", unitNo))
          /\ ok_all' = AndReduce(ok_all, ok)
          /\ pc' = "x_for"
          /\ UNCHANGED <<returned, result>>
     ELSE /\ log' = Append(log, Line(IF ok THEN "SingleOk" ELSE "SingleFailed",
                                     unitNo))
          /\ Return(ok)
          /\ UNCHANGED ok_all
  /\ UNCHANGED <<cmd, inputKind, inputSuffix, remaining, walk, dirsSeen, vidsSeen, cur,
                 ok, unitNo, opens, fsOps, badAccess, history>>

\* ------------------------------------------------------------------ getmp4
\* convert_to_mp4, up to the loop or the single call
ConvertToMp4 ==
  /\ pc = "start" /\ cmd = "getmp4"
  /\ IF inputKind = "dir"
     THEN /\ log' = log \o <<Line("DetectedDir", 0), Line("StartConvertDir", 0)>>
          /\ ok_all' = TRUE
          /\ pc' = "c_for"
          /\ UNCHANGED <<cur, unitNo, returned, result>>
     ELSE IF inputKind = "file"
     THEN IF ~is_video_file(inputSuffix)
          THEN /\ log' = Append(log, Line("ErrUnsupported", 0))
               /\ Return(FALSE)
               /\ UNCHANGED <<cur, unitNo, ok_all>>
          ELSE /\ log' = Append(log, Line("ProcessingSingle", unitNo + 1))
               /\ cur' = [kind |-> "file", suffix |-> inputSuffix]
               /\ unitNo' = unitNo + 1
               /\ pc' = "cs_enter"
               /\ UNCHANGED <<ok_all, returned, result>>
     ELSE /\ log' = Append(log, Line("ErrNeither", 0))
          /\ Return(FALSE)
          /\ UNCHANGED <<cur, unitNo, ok_all>>
  /\ UNCHANGED <<cmd, inputKind, inputSuffix, remaining, walk, dirsSeen, vidsSeen, ok,
                 cap, writer, cap0, loc, results, opens, fsOps, badAccess,
                 leaked, lastWritten, history>>

\* for f in _iter_all_files(p): a file already MP4 is logged and skipped with
\* continue, any other supported file goes to _convert_single_to_mp4
ConvertForNext ==
  /\ pc = "c_for" /\ remaining > 0
  /\ \E e \in Entries :
       /\ remaining' = remaining - 1
       /\ IF e.kind = "file" /\ is_video_file(e.suffix)
          THEN /\ StartUnit(e)
               /\ IF IsMp4Suffix(e.suffix)
                  THEN /\ log' = Append(log, Line("AlreadyMp4", unitNo + 1))
                       /\ results' = Append(results, "skipped")
                       /\ pc' = "c_for"
                  ELSE /\ log' = Append(log, Line("ProcessingFile", unitNo + 1))
                       /\ pc' = "cs_enter"
                       /\ UNCHANGED results
          ELSE UNCHANGED <<cur, unitNo, opens, fsOps, log, pc, results>>
  /\ UNCHANGED <<cmd, inputKind, inputSuffix, walk, dirsSeen, vidsSeen, ok_all, ok,
                 returned, result, cap, writer, cap0, loc, badAccess, leaked,
                 lastWritten, history>>

\* the generator is exhausted: log the summary and return ok_all
ConvertForEnd ==
  /\ pc = "c_for" /\ remaining = 0
  /\ log' = Append(log, Line("AllConverted", 0))
  /\ Return(ok_all)
  /\ UNCHANGED <<cmd, inputKind, inputSuffix, remaining, walk, dirsSeen, vidsSeen, cur,
                 ok_all, ok, cap, writer, cap0, loc, unitNo, results, opens,
                 fsOps, badAccess, leaked, lastWritten, history>>

\* _convert_single_to_mp4: the already-MP4 test, then the capture is opened
CS_Enter ==
  /\ pc = "cs_enter"
  /\ IF IsMp4Suffix(cur.suffix)
     THEN /\ log' = Append(log, Line("AlreadyMp4", unitNo))
          /\ ok' = TRUE
          /\ pc' = "cs_ret"
          /\ loc' = [op |-> "convert", sink |-> "none", frames |-> 0]
          /\ UNCHANGED <<cap, opens>>
     ELSE /\ opens' = opens + 1
          /\ \E opened \in BOOLEAN :
               IF ~opened
               THEN /\ cap' = "failed"
                    /\ log' = Append(log, Line("ErrCannotOpen", unitNo))
                    /\ ok' = FALSE
                    /\ pc' = "cs_ret"
                    /\ loc' = [op |-> "convert", sink |-> "none", frames |-> 0]
               ELSE /\ cap' = "open"
                    /\ pc' = "cs_props"
                    /\ loc' = [op |-> "convert", sink |-> "none", frames |-> 0]
                    /\ UNCHANGED <<log, ok>>
  /\ UNCHANGED <<cmd, inputKind, inputSuffix, remaining, walk, dirsSeen, vidsSeen, cur,
                 ok_all, returned, result, writer, cap0, unitNo, results,
                 fsOps, badAccess, leaked, lastWritten, history>>

\* fps, w, h are read from the capture; zero width or height is a failure
CS_Props ==
  /\ pc = "cs_props"
  /\ badAccess' = (badAccess \/ cap # "open")
  /\ \E raw \in FpsReported, w \in Dimensions, h \in Dimensions :
       IF w = 0 \/ h = 0
       THEN /\ cap' = Release(cap)
            /\ log' = Append(log, Line("ErrResolution", unitNo))
            /\ ok' = FALSE
            /\ pc' = "cs_ret"
            /\ loc' = [loc EXCEPT !.sink = "no geometry"]
       ELSE /\ loc' = [op |-> "convert", sink |-> "none", frames |-> 0,
                       fps |-> SafeFps(raw), w |-> w, h |-> h]
            /\ pc' = "cs_writer"
            /\ UNCHANGED <<cap, log, ok>>
  /\ UNCHANGED <<cmd, inputKind, inputSuffix, remaining, walk, dirsSeen, vidsSeen, cur,
                 ok_all, returned, result, writer, cap0, unitNo, results,
                 opens, fsOps, leaked, lastWritten, history>>

\* the writer is created at video_path.with_suffix(".mp4"); creating it makes
\* (or overwrites) the output file
CS_Writer ==
  /\ pc = "cs_writer"
  /\ opens' = opens + 1
  /\ \E created \in BOOLEAN :
       IF ~created
       THEN /\ writer' = "failed"
            /\ cap' = Release(cap)
            /\ log' = Append(log, Line("ErrCreateOutput", unitNo))
            /\ ok' = FALSE
            /\ pc' = "cs_ret"
            /\ loc' = [loc EXCEPT !.sink = "not created"]
            /\ UNCHANGED fsOps
       ELSE /\ writer' = "open"
            /\ fsOps' = fsOps + 1
            /\ loc' = [op |-> "convert", sink |-> "created", frames |-> 0]
            /\ pc' = "cs_loop"
            /\ UNCHANGED <<cap, log, ok>>
  /\ UNCHANGED <<cmd, inputKind, inputSuffix, remaining, walk, dirsSeen, vidsSeen, cur,
                 ok_all, returned, result, cap0, unitNo, results, badAccess,
                 leaked, lastWritten, history>>

\* one iteration of the copy loop: cap.read(), writer.write(frame)
CS_Copy ==
  /\ pc = "cs_loop"
  /\ \E got \in BOOLEAN :
       /\ got => loc.frames < MaxFrames
       /\ IF ~got
          THEN /\ pc' = "cs_finish"
               /\ badAccess' = (badAccess \/ cap # "open")
               /\ UNCHANGED loc
          ELSE /\ pc' = "cs_loop"
               /\ badAccess' = (badAccess \/ cap # "open" \/ writer # "open")
               /\ loc' = [loc EXCEPT !.frames = @ + 1]
  /\ UNCHANGED <<cmd, inputKind, inputSuffix, remaining, walk, dirsSeen, vidsSeen, cur,
                 ok_all, ok, returned, result, log, cap, writer, cap0, unitNo,
                 results, opens, fsOps, leaked, lastWritten, history>>

\* after the loop: both handles are released, then the zero-frame test
CS_Finish ==
  /\ pc = "cs_finish"
  /\ writer' = Release(writer)
  /\ cap' = Release(cap)
  /\ IF NoFramesWritten(loc.frames)
     THEN /\ log' = Append(log, Line("ErrNoFrames", unitNo))
          /\ ok' = FALSE
     ELSE /\ log' = log \o <<Line("NoteAudio", unitNo), Line("Converted", unitNo)>>
          /\ ok' = TRUE
  /\ pc' = "cs_ret"
  /\ UNCHANGED <<cmd, inputKind, inputSuffix, remaining, walk, dirsSeen, vidsSeen, cur,
                 ok_all, returned, result, cap0, loc, unitNo, results, opens,
                 fsOps, badAccess, leaked, lastWritten, history>>

\* back in convert_to_mp4 with the worker's result
ConvertAfter ==
  /\ pc = "cs_ret"
  /\ DropFrame
  /\ results' = Append(results, IF ok THEN "ok" ELSE "failed")
  /\ IF inputKind = "dir"
     THEN /\ log' = log \o FailureLine(ok, Line("ProcessingFailed", unitNo))
          /\ ok_all' = AndReduce(ok_all, ok)
          /\ pc' = "c_for"
          /\ UNCHANGED <<returned, result>>
     ELSE /\ log' = Append(log, Line(IF ok THEN "ConvertedOk"
                                          ELSE "ConversionFailed", unitNo))
          /\ Return(ok)
          /\ UNCHANGED ok_all
  /\ UNCHANGED <<cmd, inputKind, inputSuffix, remaining, walk, dirsSeen, vidsSeen, cur,
                 ok, unitNo, opens, fsOps, badAccess, history>>

\* the caller invokes convert_to_mp4 again on the same single file: a fresh
\* call with a fresh log; what the earlier call returned and did is kept
ConvertAgain ==
  /\ pc = "done" /\ cmd = "getmp4" /\ inputKind = "file"
  /\ Len(history) + 1 < MaxRuns
  /\ history' = Append(history, [result |-> result, opens |-> opens,
                                 fsOps |-> fsOps, log |-> log])
  /\ pc' = "start"
  /\ returned' = FALSE
  /\ result' = FALSE
  /\ log' = <<>>
  /\ unitNo' = 0
  /\ results' = <<>>
  /\ cur' = NoEntry
  /\ ok' = TRUE
  /\ ok_all' = TRUE
  /\ lastWritten' = NoFrame
  /\ UNCHANGED <<cmd, inputKind, inputSuffix, remaining, walk, dirsSeen, vidsSeen, cap,
                 writer, cap0, loc, opens, fsOps, badAccess, leaked>>

\* -------------------------------------------------------------- mergevideo
\* The names a directory can hold, in the order sorted() gives their paths
\* (code-point order of the name): regular files and sub-directories, with
\* and without a supported suffix.  A name is referred to by its position.
Names ==
  << [name |-> "a.avi",             kind |-> "file", suffix |-> <<".","a","v","i">>],
     [name |-> "clips.mp4",         kind |-> "dir",  suffix |-> DotMp4],
     [name |-> "merged_output.mp4", kind |-> "file", suffix |-> DotMp4],
     [name |-> "notes.txt",         kind |-> "file", suffix |-> <<".","t","x","t">>],
     [name |-> "sub",               kind |-> "dir",  suffix |-> <<>>],
     [name |-> "z.MKV",             kind |-> "file", suffix |-> <<".","M","K","V">>] >>

\* out_path = directory / "merged_output.mp4"
OutPath == CHOOSE i \in DOMAIN Names : Names[i].name = "merged_output.mp4"

\* sorted(...): the paths of S in increasing order
RECURSIVE Sorted(_)
Sorted(S) ==
  IF S = {} THEN <<>>
  ELSE LET least == CHOOSE x \in S : \A y \in S : x <= y
       IN  <<least>> \o Sorted(S \ {least})

\* vids: the entries os.listdir returns whose suffix is supported, sorted;
\* the entry's kind is not looked at
Vids(listing) == Sorted({i \in listing : is_video_file(Names[i].suffix)})

\* the mutant of the too-few test that merges a single file
TooFewToMerge_one(n) == n < 1

\* if len(vids) < 2
TooFewToMerge(n) == n < 2

\* the mutant of the resize test that compares the width only
NeedsResize_width(fw, fh, w0, h0) == fw # w0

\* if frame.shape[1] != w0 or frame.shape[0] != h0
NeedsResize(fw, fh, w0, h0) == fw # w0 \/ fh # h0

\* the mutant of _merge_dir's last line that fails a merge that skipped a file
MergeDirResult_strict(total_frames, skipped) == skipped = {}

\* the last line of _merge_dir: return True
MergeDirResult(total_frames, skipped) == TRUE

\* merge_videos_recursively, up to the loop
MergeVideosRecursively ==
  /\ pc = "start" /\ cmd = "mergevideo"
  /\ IF inputKind # "dir"
     THEN /\ log' = Append(log, Line("ErrRequiresDir", 0))
          /\ Return(FALSE)
          /\ UNCHANGED <<ok_all, walk, dirsSeen, vidsSeen>>
     ELSE /\ log' = log \o <<Line("DetectedDir", 0), Line("StartMergeDir", 0)>>
          /\ ok_all' = TRUE
          /\ walk' = 1
          /\ dirsSeen' = 1
          /\ UNCHANGED vidsSeen
          /\ pc' = "m_for"
          /\ UNCHANGED <<returned, result>>
  /\ UNCHANGED <<cmd, inputKind, inputSuffix, remaining, cur, ok, cap, writer,
                 cap0, loc, unitNo, results, opens, fsOps, badAccess, leaked,
                 lastWritten, history>>

\* for current, dirs, files in os.walk(p): the walk yields the next directory
\* and queues its sub-directories; _merge_dir is called on it
MergeForNext ==
  /\ pc = "m_for" /\ walk > 0
  /\ \E listing \in SUBSET (DOMAIN Names) :
       LET subdirs == Cardinality({i \in listing : Names[i].kind = "dir"})
           videos == Cardinality({i \in listing : is_video_file(Names[i].suffix)})
       IN  /\ dirsSeen + subdirs <= MaxDirs
           /\ vidsSeen + videos <= MaxVideos
           /\ dirsSeen' = dirsSeen + subdirs
           /\ vidsSeen' = vidsSeen + videos
           /\ walk' = walk - 1 + subdirs
           /\ loc' = [op |-> "merge", listing |-> listing]
  /\ StartUnit([kind |-> "dir", suffix |-> <<>>])
  /\ log' = Append(log, Line("ProcessingDir", unitNo + 1))
  /\ pc' = "md_enter"
  /\ UNCHANGED <<cmd, inputKind, inputSuffix, remaining, ok_all, ok, returned,
                 result, cap, writer, cap0, results, badAccess, leaked,
                 lastWritten, history>>

\* the walk is exhausted: log the summary and return ok_all
MergeForEnd ==
  /\ pc = "m_for" /\ walk = 0
  /\ log' = Append(log, Line("AllMerged", 0))
  /\ Return(ok_all)
  /\ UNCHANGED <<cmd, inputKind, inputSuffix, remaining, walk, dirsSeen, vidsSeen, cur,
                 ok_all, ok, cap, writer, cap0, loc, unitNo, results, opens,
                 fsOps, badAccess, leaked, lastWritten, history>>

\* _merge_dir: vids is listed and sorted; with fewer than two the merge is
\* skipped, otherwise the first is opened as the reference.  A directory
\* never opens as a video.  prior is the frame count of the merged_output.mp4
\* an earlier merge left in the directory, when there is one.
\* opened: the sources a VideoCapture opened; skipped: those the loop skipped.
MD_Enter ==
  /\ pc = "md_enter"
  /\ LET vids == Vids(loc.listing)
         frame == [op |-> "merge", listing |-> loc.listing, vids |-> vids,
                   sink |-> "none",
                   ref |-> "none", skipped |-> {}, opened |-> {}, prior |-> 0]
     IN  IF TooFewToMerge(Len(vids))
         THEN /\ log' = Append(log, Line("LessThan2", unitNo))
              /\ ok' = TRUE
              /\ pc' = "md_ret"
              /\ loc' = frame
              /\ UNCHANGED <<cap0, opens>>
         ELSE /\ opens' = opens + 1
              /\ \E opened \in BOOLEAN :
                   /\ Names[vids[1]].kind = "dir" => ~opened
                   /\ IF ~opened
                      THEN /\ cap0' = "failed"
                           /\ log' = Append(log, Line("ErrOpenRef", unitNo))
                           /\ ok' = FALSE
                           /\ pc' = "md_ret"
                           /\ loc' = [frame EXCEPT !.ref = "not opened"]
                      ELSE \E prior \in (IF OutPath \in loc.listing
                                         THEN 0..MaxMergeFrames ELSE {0}) :
                           /\ cap0' = "open"
                           /\ pc' = "md_ref"
                           /\ loc' = [frame EXCEPT !.ref = "opened",
                                                   !.opened = {vids[1]},
                                                   !.prior = prior]
                           /\ UNCHANGED <<log, ok>>
  /\ UNCHANGED <<cmd, inputKind, inputSuffix, remaining, walk, dirsSeen,
                 vidsSeen, cur, ok_all, returned, result, cap, writer, unitNo,
                 results, fsOps, badAccess, leaked, lastWritten, history>>

\* fps0, w0, h0 are read from the reference, which is then released; zero
\* width or height fails the directory
MD_Ref ==
  /\ pc = "md_ref"
  /\ badAccess' = (badAccess \/ cap0 # "open")
  /\ cap0' = Release(cap0)
  /\ \E raw \in FpsReported, w0 \in Dimensions, h0 \in Dimensions :
       IF w0 = 0 \/ h0 = 0
       THEN /\ log' = Append(log, Line("ErrRefResolution", unitNo))
            /\ ok' = FALSE
            /\ pc' = "md_ret"
            /\ loc' = [loc EXCEPT !.ref = "no geometry"]
       ELSE /\ loc' = [op |-> "merge", listing |-> loc.listing,
                       vids |-> loc.vids, sink |-> "none",
                       ref |-> "opened", skipped |-> {},
                       opened |-> loc.opened, prior |-> loc.prior,
                       fps0 |-> SafeFps(raw), w0 |-> w0, h0 |-> h0]
            /\ pc' = "md_writer"
            /\ UNCHANGED <<log, ok>>
  /\ UNCHANGED <<cmd, inputKind, inputSuffix, remaining, walk, dirsSeen,
                 vidsSeen, cur, ok_all, returned, result, cap, writer, unitNo,
                 results, opens, fsOps, leaked, lastWritten, history>>

\* the writer is created at out_path with the reference rate and geometry;
\* creating it makes the file, or empties the one already there.
\* total_frames is the code's counter, written the frames the sink received,
\* read the frames the sources other than out_path delivered, readOut those
\* a re-opened out_path delivered, n those the current source delivered.
MD_Writer ==
  /\ pc = "md_writer"
  /\ opens' = opens + 1
  /\ \E created \in BOOLEAN :
       IF ~created
       THEN /\ writer' = "failed"
            /\ log' = Append(log, Line("ErrCreateSink", unitNo))
            /\ ok' = FALSE
            /\ pc' = "md_ret"
            /\ loc' = [loc EXCEPT !.sink = "not created"]
            /\ UNCHANGED fsOps
       ELSE /\ writer' = "open"
            /\ fsOps' = fsOps + 1
            /\ loc' = [op |-> "merge", listing |-> loc.listing,
                       vids |-> loc.vids, sink |-> "created",
                       ref |-> "opened", skipped |-> {},
                       opened |-> loc.opened, prior |-> loc.prior,
                       w0 |-> loc.w0, h0 |-> loc.h0, total_frames |-> 0,
                       i |-> 1, written |-> 0, read |-> 0, readOut |-> 0,
                       n |-> 0]
            /\ pc' = "md_for"
            /\ UNCHANGED <<log, ok>>
  /\ UNCHANGED <<cmd, inputKind, inputSuffix, remaining, walk, dirsSeen,
                 vidsSeen, cur, ok_all, returned, result, cap, cap0, unitNo,
                 results, badAccess, leaked, lastWritten, history>>

\* for v in vids: open v; a file that does not open is logged and skipped.
\* The reference opens again as it did before, unless it is out_path: what
\* a file that is being written presents to a reader is not determined, it
\* may fail to open or open with any content.  The width and height the
\* capture reports only decide the warning.
MD_ForNext ==
  /\ pc = "md_for" /\ loc.i <= Len(loc.vids)
  /\ opens' = opens + 1
  /\ leaked' = (leaked \/ cap = "open")
  /\ LET v == loc.vids[loc.i]
     IN  \E opened \in BOOLEAN :
           /\ Names[v].kind = "dir" => ~opened
           /\ (loc.i = 1 /\ v # OutPath) => opened
           /\ IF ~opened
              THEN /\ cap' = "failed"
                   /\ log' = Append(log, Line("ErrOpenSkip", unitNo))
                   /\ loc' = [loc EXCEPT !.skipped = @ \cup {v}, !.i = @ + 1]
                   /\ pc' = "md_for"
              ELSE \E w \in Dimensions, h \in Dimensions :
                   /\ cap' = "open"
                   /\ log' = log \o (IF w # loc.w0 \/ h # loc.h0
                                     THEN <<Line("WarnResize", unitNo)>>
                                     ELSE <<>>)
                   /\ loc' = [loc EXCEPT !.opened = @ \cup {v}, !.n = 0]
                   /\ pc' = "md_loop"
  /\ UNCHANGED <<cmd, inputKind, inputSuffix, remaining, walk, dirsSeen,
                 vidsSeen, cur, ok_all, ok, returned, result, writer, cap0,
                 unitNo, results, fsOps, badAccess, lastWritten, history>>

\* one iteration of the inner loop: cap.read(), resize the frame if its
\* shape differs from (w0, h0), writer.write(frame); at end of stream the
\* capture is released
MD_Read ==
  /\ pc = "md_loop"
  /\ LET v == loc.vids[loc.i]
     IN  \E got \in BOOLEAN :
           /\ got => loc.n < MaxMergeFrames
           /\ IF ~got
              THEN /\ badAccess' = (badAccess \/ cap # "open")
                   /\ cap' = Release(cap)
                   /\ loc' = [loc EXCEPT !.i = @ + 1]
                   /\ pc' = "md_for"
                   /\ UNCHANGED lastWritten
              ELSE \E fw \in FrameDimensions, fh \in FrameDimensions :
                   /\ badAccess' = (badAccess \/ cap # "open" \/ writer # "open")
                   /\ lastWritten' =
                        IF NeedsResize(fw, fh, loc.w0, loc.h0)
                        THEN [w |-> loc.w0, h |-> loc.h0, resized |-> TRUE,
                              from |-> <<fw, fh>>]
                        ELSE [w |-> fw, h |-> fh, resized |-> FALSE,
                              from |-> <<fw, fh>>]
                   /\ loc' = [loc EXCEPT
                                !.total_frames = @ + 1,
                                !.written = @ + 1,
                                !.n = @ + 1,
                                !.read = IF v = OutPath THEN @ ELSE @ + 1,
                                !.readOut = IF v = OutPath THEN @ + 1 ELSE @]
                   /\ pc' = "md_loop"
                   /\ UNCHANGED cap
  /\ UNCHANGED <<cmd, inputKind, inputSuffix, remaining, walk, dirsSeen,
                 vidsSeen, cur, ok_all, ok, returned, result, log, writer,
                 cap0, unitNo, results, opens, fsOps, leaked, history>>

\* after the loop: writer.release(), the two log lines, return True
MD_ForEnd ==
  /\ pc = "md_for" /\ loc.i > Len(loc.vids)
  /\ writer' = Release(writer)
  /\ log' = log \o <<Line("NoteAudio", unitNo), Line("Merged", unitNo)>>
  /\ ok' = MergeDirResult(loc.total_frames, loc.skipped)
  /\ pc' = "md_ret"
  /\ UNCHANGED <<cmd, inputKind, inputSuffix, remaining, walk, dirsSeen,
                 vidsSeen, cur, ok_all, returned, result, cap, cap0, loc,
                 unitNo, results, opens, fsOps, badAccess, leaked, lastWritten,
                 history>>

\* back in merge_videos_recursively with _merge_dir's result
MergeAfter ==
  /\ pc = "md_ret"
  /\ DropFrame
  /\ results' = Append(results, IF ok THEN "ok" ELSE "failed")
  /\ log' = log \o FailureLine(ok, Line("MergeFailed", unitNo))
  /\ ok_all' = AndReduce(ok_all, ok)
  /\ pc' = "m_for"
  /\ UNCHANGED <<cmd, inputKind, inputSuffix, remaining, walk, dirsSeen, vidsSeen, cur,
                 ok, returned, result, unitNo, opens, fsOps, badAccess,
                 history>>

Next ==
  \/ ExtractFrames
  \/ ExtractForNext
  \/ ExtractForEnd
  \/ XS_Open
  \/ XS_Read
  \/ XS_Release
  \/ ExtractAfter
  \/ ConvertToMp4
  \/ ConvertForNext
  \/ ConvertForEnd
  \/ CS_Enter
  \/ CS_Props
  \/ CS_Writer
  \/ CS_Copy
  \/ CS_Finish
  \/ ConvertAfter
  \/ ConvertAgain
  \/ MergeVideosRecursively
  \/ MergeForNext
  \/ MergeForEnd
  \/ MD_Enter
  \/ MD_Ref
  \/ MD_Writer
  \/ MD_ForNext
  \/ MD_Read
  \/ MD_ForEnd
  \/ MergeAfter

Spec == Init /\ [][Next]_vars


\* ------------------------------------------------------------------ claims
Last(seq) == seq[Len(seq)]

\* C1: when a directory run of extract_frames, convert_to_mp4 or
\* merge_videos_recursively returns, the boolean is TRUE exactly when no unit
\* handed to the worker returned failure, and every unit the enumeration
\* yielded has been handled: nothing is left to enumerate after a failure.
C1_AndReduction ==
  (returned /\ inputKind = "dir") =>
    /\ result = (\A i \in DOMAIN results : results[i] # "failed")
    /\ remaining = 0
    /\ walk = 0
    /\ Len(results) = unitNo

\* a directory run that has returned FALSE, in which a unit that failed was
\* followed by a unit that was processed with success
C1_Witness ==
  /\ returned /\ inputKind = "dir" /\ ~result
  /\ \E i, j \in DOMAIN results :
       i < j /\ results[i] = "failed" /\ results[j] = "ok"

\* C2: when _extract_frames_single returns for a source that opened and
\* delivered T frames, with I = max(round(fps), 1) and a reported rate of
\* zero or less replaced by 25, it has saved ceil(T / I) images, image
\* number k is frame index (k - 1) * I, and it reports success (so T = 0
\* saves nothing and succeeds).
C2_Sampling ==
  (pc = "xs_ret" /\ loc.op = "extract" /\ loc.opened) =>
    LET T == loc.idx
        rate == IF loc.raw <= 0 THEN 2 * DefaultFps ELSE loc.raw
        I == IF PyRound(rate) >= 1 THEN PyRound(rate) ELSE 1
    IN  /\ loc.saved = CeilDiv(T, I)
        /\ loc.images = {<<k, (k - 1) * I>> : k \in 1..CeilDiv(T, I)}
        /\ ok

\* a source that reported no frame rate and delivered enough frames for a
\* second image at the fallback interval
C2_Witness ==
  /\ pc = "xs_ret" /\ loc.op = "extract" /\ loc.opened
  /\ loc.raw = 0 /\ loc.saved = 2

\* the names of the model whose extension is one of mp4, avi, mkv, mov, flv,
\* wmv, webm in any letter case
SupportedNames == {"a.avi", "clips.mp4", "merged_output.mp4", "z.MKV"}

\* the supported entries of the directory _merge_dir is working on
Qualifying == {i \in loc.listing : Names[i].name \in SupportedNames}

\* those of them that are regular files
QualifyingFiles == {i \in Qualifying : Names[i].kind = "file"}

InMergeDir == loc.op = "merge" /\ pc # "md_enter"

\* C3 as stated: when a directory merge that created its sink returns, the
\* frames written to merged_output.mp4 are as many as the frame counts of the
\* sources that opened add up to, a merged_output.mp4 left by an earlier
\* merge included with the frames it held.
C3_FrameSum ==
  (pc = "md_ret" /\ InMergeDir /\ loc.sink = "created") =>
    loc.written = loc.read + (IF OutPath \in loc.opened THEN loc.prior ELSE 0)

\* C4 as stated: with two or more qualifying files, _merge_dir succeeds when
\* the sink was created, and fails only on zero reference width or height or
\* when the sink cannot be created.
C4_FailureOnlyGeometryOrSink ==
  (pc = "md_ret" /\ InMergeDir /\ Cardinality(QualifyingFiles) >= 2) =>
    /\ loc.sink = "created" => ok
    /\ ~ok => (loc.ref = "no geometry" \/ loc.sink = "not created")

\* C4 as amended: with two or more qualifying entries, _merge_dir succeeds
\* exactly when the sink was created, also when sources were skipped in the
\* copy loop; it fails only when the first entry in sorted order does not
\* open as the reference, on zero reference width or height, or when the sink
\* cannot be created.
C4_FailureAlsoOnReferenceOpen ==
  (pc = "md_ret" /\ InMergeDir /\ Cardinality(Qualifying) >= 2) =>
    /\ ok = (loc.sink = "created")
    /\ ~ok => \/ loc.ref = "not opened"
              \/ loc.ref = "no geometry"
              \/ loc.sink = "not created"

\* a merge that skipped a source in the copy loop and reports success
C4_Witness ==
  /\ pc = "md_ret" /\ InMergeDir /\ Cardinality(Qualifying) >= 2
  /\ loc.sink = "created" /\ loc.skipped # {} /\ ok

\* C5: no VideoCapture or VideoWriter is read, written or queried unless it
\* is open, none is dropped while open, and when _extract_frames_single,
\* _convert_single_to_mp4 or _merge_dir returns none of its handles is open.
C5_HandlesReleased ==
  /\ ~badAccess
  /\ ~leaked
  /\ pc \in {"xs_ret", "cs_ret", "md_ret"} =>
       (cap # "open" /\ writer # "open" /\ cap0 # "open")

\* a conversion that failed on zero frames with both handles released
C5_Witness ==
  /\ pc = "cs_ret" /\ ~ok
  /\ cap = "released" /\ writer = "released"

\* the suffixes that spell mp4 in some letter case
Mp4AnyCase ==
  { <<".", m, p, "4">> : m \in {"m", "M"}, p \in {"p", "P"} }

\* C6: for a file whose extension is mp4 in any letter case, convert_to_mp4
\* constructs no handle and touches no file, _convert_single_to_mp4 (single
\* file) or the directory loop (which skips it) reports success, and a second
\* invocation on the same single file returns the same, logs the same and
\* leaves the filesystem as it was.
C6_Mp4NoOp ==
  /\ (cmd = "getmp4" /\ inputKind = "file" /\ inputSuffix \in Mp4AnyCase) =>
       /\ opens = 0 /\ fsOps = 0
       /\ pc \notin {"cs_props", "cs_writer", "cs_loop", "cs_finish"}
       /\ pc = "cs_ret" => ok
       /\ returned =>
            /\ result
            /\ \A n \in DOMAIN history :
                 /\ history[n].result = result
                 /\ history[n].log = log
                 /\ history[n].fsOps = 0 /\ history[n].opens = 0
  /\ (cmd = "getmp4" /\ inputKind = "dir" /\ cur.suffix \in Mp4AnyCase
      /\ cur.kind = "file") =>
       /\ opens = 0 /\ fsOps = 0
       /\ pc \in {"c_for", "done"}
       /\ results[unitNo] = "skipped"

\* the second invocation on a single file named with a mixed-case .Mp4 has
\* returned
C6_Witness ==
  /\ cmd = "getmp4" /\ inputKind = "file"
  /\ inputSuffix = <<".", "M", "p", "4">>
  /\ Len(history) = 1 /\ returned /\ result

TerminalLines ==
  {"SingleOk", "SingleFailed", "ConvertedOk", "ConversionFailed",
   "ProcessingFailed", "MergeFailed"}

SingleTerminalLines ==
  {"SingleOk", "SingleFailed", "ConvertedOk", "ConversionFailed"}

SummaryLines == {"AllProcessed", "AllConverted", "AllMerged"}

UsageErrorLines == {"ErrUnsupported", "ErrNeither", "ErrRequiresDir"}

\* the terminal lines the log holds about unit u
TerminalCount(u) ==
  Cardinality({i \in DOMAIN log : log[i].unit = u /\ log[i].line \in TerminalLines})

\* C7 as stated: when the invocation returns, every unit of work has exactly
\* one terminal line ("... successfully." / "... failed") in the log, in
\* single-file and in directory mode, and the last log event is the summary
\* line (in single-file mode, the file's terminal line).
C7_OneTerminalLineAndSummary ==
  returned =>
    /\ \A u \in 1..unitNo : TerminalCount(u) = 1
    /\ log # <<>>
    /\ Last(log).line \in SummaryLines \cup SingleTerminalLines

\* C7 as amended: in a directory run a unit that failed has exactly one
\* terminal line ("Processing failed" / "Merge failed"), a unit that
\* succeeded or was skipped has none, and the last log event is the summary
\* line; in single-file mode a supported file has exactly one terminal line,
\* it says what the call returns and is the last log event; an invocation
\* rejected for its input logs one error line, no summary, and returns FALSE.
C7_TerminalLinePerMode ==
  returned =>
    IF inputKind = "dir"
    THEN /\ \A u \in 1..unitNo :
              TerminalCount(u) = (IF results[u] = "failed" THEN 1 ELSE 0)
         /\ Last(log).line \in SummaryLines
    ELSE IF unitNo = 1
    THEN /\ TerminalCount(1) = 1
         /\ Last(log).unit = 1
         /\ Last(log).line \in (IF result THEN {"SingleOk", "ConvertedOk"}
                                ELSE {"SingleFailed", "ConversionFailed"})
    ELSE /\ unitNo = 0
         /\ Len(log) = 1
         /\ log[1].line \in UsageErrorLines
         /\ ~result

\* a directory run that has returned with a unit that failed and a unit that
\* succeeded
C7_Witness ==
  /\ returned /\ inputKind = "dir"
  /\ \E i, j \in DOMAIN results : results[i] = "failed" /\ results[j] = "ok"
  /\ Last(log).line \in SummaryLines

\* C8: when _convert_single_to_mp4 returns after it opened its source and
\* created its sink, it reports success exactly when at least one frame was
\* copied; with zero frames it returns FALSE and its last log line is the
\* no-frames error.
C8_ZeroFramesFail ==
  (pc = "cs_ret" /\ loc.op = "convert" /\ loc.sink = "created") =>
    /\ ok = (loc.frames >= 1)
    /\ loc.frames = 0 => (~ok /\ Last(log).line = "ErrNoFrames")

\* a conversion whose sink was created and whose source delivered no frame
C8_Witness ==
  /\ pc = "cs_ret" /\ loc.op = "convert" /\ loc.sink = "created"
  /\ loc.frames = 0 /\ ~ok

C10_ReferenceGeometry ==
  (cmd = "mergevideo" /\ lastWritten # NoFrame) =>
    /\ lastWritten.w = loc.w0
    /\ lastWritten.h = loc.h0
    /\ lastWritten.resized = (lastWritten.from # <<loc.w0, loc.h0>>)
    /\ ~lastWritten.resized => lastWritten.from = <<lastWritten.w, lastWritten.h>>

\* a frame whose width matched the reference and whose height did not was
\* resized and written
C10_Witness ==
  /\ cmd = "mergevideo" /\ lastWritten # NoFrame
  /\ lastWritten.resized
  /\ lastWritten.from[1] = loc.w0 /\ lastWritten.from[2] # loc.h0

====
